---- MODULE Spec2Model ----
(***************************************************************************)
(* Model of the Stopwatch of src/src/lib.rs.                                *)
(*                                                                         *)
(* A Stopwatch is the record [start_time, paused_at, speed].  The f64      *)
(* fields are modelled as exact rationals <<numerator, denominator>> in    *)
(* lowest terms, extended with the infinities and NaN, so that the         *)
(* division by `speed` and the multiplication by `speed` are computed, not *)
(* assumed to cancel.  Rounding is not modelled: equalities stand for      *)
(* equality within floating-point tolerance.                               *)
(* Option<f64> is the empty sequence (None) or a one-element               *)
(* sequence (Some(x)).  The time source get_raw_time() is the variable     *)
(* `now`, advanced by the environment (Tick) and by a blocking sleep.      *)
(***************************************************************************)
EXTENDS Integers, Sequences, FiniteSets, TLC

\* ------------------------------------------------------------------ bounds

\* Number of stopwatch calls made after construction.
MaxCalls == 3
\* The environment advances the time source up to this many seconds past the
\* construction instant (a sleep may carry it further).
MaxClock == 2
\* Largest argument handed to set_time, add_time and sleep_until.
MaxVal == 2

\* ------------------------------------------------------------- f64 values
\* An f64 is << n, d >>: the rational n/d in lowest terms when d > 0, and
\* +infinity << 1, 0 >>, -infinity << -1, 0 >> or NaN << 0, 0 >> when d = 0.
\* Arithmetic is exact on the finite values (no rounding) and follows
\* IEEE 754 on the others.  The sign of a zero is not kept: the only divisor
\* in the program is `speed`, and the zero speed modelled is +0.0.

Abs(x) == IF x < 0 THEN -x ELSE x
Sgn(x) == IF x < 0 THEN -1 ELSE IF x > 0 THEN 1 ELSE 0

RECURSIVE GCD(_, _)
GCD(a, b) == IF b = 0 THEN a ELSE GCD(b, a % b)

Rat(n, d) ==
    IF d = 0
    THEN << Sgn(n), 0 >>
    ELSE LET g == GCD(Abs(n), Abs(d))
             s == IF d < 0 THEN -1 ELSE 1
         IN  << (s * n) \div g, (s * d) \div g >>

FromInt(n) == << n, 1 >>
Zero == FromInt(0)
NaN == << 0, 0 >>
Infinity == << 1, 0 >>
Finite(x) == x[2] # 0

Neg(x) == << -x[1], x[2] >>

Add(x, y) ==
    IF Finite(x) /\ Finite(y)
    THEN Rat(x[1] * y[2] + y[1] * x[2], x[2] * y[2])
    ELSE IF x = NaN \/ y = NaN THEN NaN
    ELSE IF Finite(y) THEN x
    ELSE IF Finite(x) THEN y
    ELSE IF x = y THEN x ELSE NaN

Sub(x, y) == Add(x, Neg(y))

\* infinity * 0 is NaN, infinity * x takes the sign of the product.
Mul(x, y) == Rat(x[1] * y[1], x[2] * y[2])

\* 1 / y: 1 / 0.0 is +infinity, 1 / infinity is 0, 1 / NaN is NaN.
Recip(y) ==
    IF y[1] > 0 THEN << y[2], y[1] >>
    ELSE IF y[1] < 0 THEN << -y[2], -y[1] >>
    ELSE IF Finite(y) THEN Infinity ELSE NaN

Div(x, y) == Mul(x, Recip(y))

\* Comparisons with NaN are false.
Gt(x, y) == Sub(x, y)[1] > 0
Ge(x, y) == x # NaN /\ y # NaN /\ (x = y \/ Gt(x, y))

\* ------------------------------------------------------------ Option<f64>

None == << >>
Some(x) == << x >>
is_some(o) == o # None

\* ------------------------------------------------------------------ inputs

\* Speeds a stopwatch is constructed with: 1/2, 1 (the speed of new()) and 2,
\* and the unchecked degenerate ones, 0 and -1.
Speeds == { FromInt(-1), Zero, Rat(1, 2), FromInt(1), FromInt(2) }
\* Arguments of set_time, add_time and sleep_until (negative values included).
Vals == { FromInt(i) : i \in -1 .. MaxVal }
\* Reading of the time source at construction (the epoch is irrelevant, but
\* it is not zero).
Epoch == FromInt(2)
\* How much longer than requested a blocking sleep may last.
Overshoot == { Zero, FromInt(1) }

VARIABLES
    start_time,   \* Stopwatch.start_time
    paused_at,    \* Stopwatch.paused_at
    speed,        \* Stopwatch.speed
    now,          \* the reading of the time source
    panicked,     \* a call has panicked: the program is aborted
    op,           \* the last call made (the constructor, initially)
    arg,          \* its argument, as an Option
    ret,          \* what it returned, as an Option
    slept,        \* the duration handed to std::thread::sleep by the last call
    pre,          \* the stopwatch, the clock and the call before the last call
    returned_at,  \* the reading of the time source when the last call returned
    created_at,   \* the reading of the time source at construction
    undisturbed,  \* no pause, set_time, add_time or reset since construction
    t0,           \* get_time() at the last pause, while it is still in force
    created_speed,\* the speed the stopwatch was constructed with
    only_pausing, \* no set_time, add_time, reset or sleep_until so far
    running_for,  \* reference: total raw time spent in the Running state
    calls         \* number of calls made

vars == << start_time, paused_at, speed, now, panicked, op, arg, ret, slept,
           pre, returned_at, created_at, undisturbed, t0, created_speed,
           only_pausing, running_for, calls >>

\* The stopwatch as one value.
Self == [ start_time |-> start_time, paused_at |-> paused_at, speed |-> speed ]

\* -------------------------------------------------------------- Stopwatch
\* Every method is an operator on the stopwatch value `self` and on `raw`,
\* the reading get_raw_time() returns during the call.

get_raw_time(raw) == raw

\* Mutant: the stopwatch is anchored at 0 instead of the current reading.
with_speed_unanchored(speed_, raw) ==
    [ start_time |-> Zero, paused_at |-> None, speed |-> speed_ ]

with_speed(speed_, raw) ==
    LET cur_time == get_raw_time(raw)
    IN  [ start_time |-> cur_time, paused_at |-> None, speed |-> speed_ ]

new(raw) == with_speed(FromInt(1), raw)

paused(self) == is_some(self.paused_at)

\* Mutant: the end time is read from the time source even when paused.
get_end_time_raw(self, raw) == get_raw_time(raw)

get_end_time(self, raw) ==
    IF self.paused_at = None THEN get_raw_time(raw) ELSE self.paused_at[1]

\* Mutant: the elapsed raw time is returned without the `* self.speed`.
get_time_unscaled(self, raw) ==
    Sub(get_end_time(self, raw), self.start_time)

get_time(self, raw) ==
    Mul(Sub(get_end_time(self, raw), self.start_time), self.speed)

\* Mutant: the pause instant is read from the time source even when the
\* stopwatch is already paused.
pause_raw(self, raw) ==
    [ self EXCEPT !.paused_at = Some(get_raw_time(raw)) ]

pause(self, raw) ==
    [ self EXCEPT !.paused_at = Some(get_end_time(self, raw)) ]

\* Mutant: the `if self.paused()` guard is missing.
unpause_unguarded(self, raw) ==
    [ self EXCEPT !.start_time = Sub(get_raw_time(raw), get_time(self, raw)),
                  !.paused_at = None ]

unpause(self, raw) ==
    IF paused(self)
    THEN [ self EXCEPT !.start_time = Sub(get_raw_time(raw), get_time(self, raw)),
                       !.paused_at = None ]
    ELSE self

\* Mutant: both branches call pause().
toggle_pause_one_way(self, raw) ==
    IF paused(self) THEN pause(self, raw) ELSE pause(self, raw)

toggle_pause(self, raw) ==
    IF paused(self) THEN unpause(self, raw) ELSE pause(self, raw)

\* Mutant: paused_at is overwritten without the `if self.paused()`.
set_time_always_freezes(self, raw, cur_time) ==
    LET s1 == [ self EXCEPT !.start_time =
                    Sub(get_end_time(self, raw), Div(cur_time, self.speed)) ]
    IN  [ s1 EXCEPT !.paused_at = Some(s1.start_time) ]

set_time(self, raw, cur_time) ==
    LET s1 == [ self EXCEPT !.start_time =
                    Sub(get_end_time(self, raw), Div(cur_time, self.speed)) ]
    IN  IF paused(s1)
        THEN [ s1 EXCEPT !.paused_at = Some(s1.start_time) ]
        ELSE s1

\* Mutant: the anchor is moved to the current reading of the time source,
\* whatever the pause state.
reset_anchor_only(self, raw) ==
    [ self EXCEPT !.start_time = get_raw_time(raw) ]

reset(self, raw) == set_time(self, raw, Zero)

\* Mutant: the difference is applied to `speed` instead of `start_time`.
add_time_to_speed(self, time_diff) ==
    LET s1 == [ self EXCEPT !.speed = Add(self.speed, time_diff) ]
    IN  IF s1.paused_at = None
        THEN s1
        ELSE [ s1 EXCEPT !.paused_at = Some(Add(s1.paused_at[1], time_diff)) ]

add_time(self, time_diff) ==
    LET s1 == [ self EXCEPT !.start_time =
                    Sub(self.start_time, Div(time_diff, self.speed)) ]
    IN  IF s1.paused_at = None
        THEN s1
        ELSE [ s1 EXCEPT !.paused_at = Some(Add(s1.paused_at[1], time_diff)) ]

\* panic: Duration::from_secs_f64 panics on a value that is not finite;
\* slept: the duration std::thread::sleep is called with, if it is called.
sleep(time_diff) ==
    IF Gt(time_diff, Zero)
    THEN IF Finite(time_diff)
         THEN [ panic |-> FALSE, slept |-> Some(time_diff) ]
         ELSE [ panic |-> TRUE, slept |-> None ]
    ELSE [ panic |-> FALSE, slept |-> None ]

\* Mutant: the `assert!(!self.paused())` is missing.
sleep_until_unchecked(self, raw, time) ==
    LET time_diff == Sub(Div(time, self.speed), get_time(self, raw))
    IN  sleep(time_diff)

\* panic: the assertion failed, or the sleep panicked; slept: the sleep made.
sleep_until(self, raw, time) ==
    IF paused(self)
    THEN [ panic |-> TRUE, slept |-> None ]
    ELSE LET time_diff == Sub(Div(time, self.speed), get_time(self, raw))
         IN  sleep(time_diff)

\* ------------------------------------------------------------ the machine

Install(s) ==
    /\ start_time' = s.start_time
    /\ paused_at' = s.paused_at
    /\ speed' = s.speed

\* Bookkeeping common to every call.
Call(name, a, r) ==
    /\ ~panicked
    /\ calls < MaxCalls
    /\ calls' = calls + 1
    /\ op' = name
    /\ arg' = a
    /\ ret' = r
    /\ pre' = [ self |-> Self, now |-> now, op |-> op, arg |-> arg ]
    /\ created_speed' = created_speed

\* A call that neither sleeps nor panics.
Quiet ==
    /\ now' = now
    /\ returned_at' = now
    /\ panicked' = panicked
    /\ slept' = None
    /\ running_for' = running_for

Init ==
    /\ now = Epoch
    /\ \E c \in { "new", "with_speed" } :
         /\ op = c
         /\ \E s \in (IF c = "new" THEN { FromInt(1) } ELSE Speeds) :
              /\ arg = (IF c = "new" THEN None ELSE Some(s))
              /\ LET sw == IF c = "new" THEN new(now) ELSE with_speed(s, now)
                 IN  /\ start_time = sw.start_time
                     /\ paused_at = sw.paused_at
                     /\ speed = sw.speed
                     /\ pre = [ self |-> sw, now |-> now, op |-> c, arg |-> arg ]
              /\ created_speed = s
    /\ panicked = FALSE
    /\ returned_at = now
    /\ ret = None
    /\ slept = None
    /\ created_at = now
    /\ undisturbed = TRUE
    /\ t0 = None
    /\ only_pausing = TRUE
    /\ running_for = Zero
    /\ calls = 0

\* The time source advances while no call is in progress.
Tick ==
    /\ ~panicked
    /\ \E d \in 1 .. MaxClock :
         /\ Ge(Add(Epoch, FromInt(MaxClock)), Add(now, FromInt(d)))
         /\ now' = Add(now, FromInt(d))
         /\ running_for' = IF paused(Self) THEN running_for
                           ELSE Add(running_for, FromInt(d))
    /\ UNCHANGED << start_time, paused_at, speed, panicked, op, arg, ret,
                    slept, pre, returned_at, created_at, undisturbed, t0,
                    created_speed, only_pausing, calls >>

Paused ==
    /\ Call("paused", None, Some(paused(Self)))
    /\ Quiet
    /\ UNCHANGED << start_time, paused_at, speed, created_at, undisturbed, t0,
                    only_pausing >>

Pause ==
    /\ Call("pause", None, None)
    /\ Install(pause(Self, now))
    /\ t0' = IF paused(Self) THEN t0 ELSE Some(get_time(Self, now))
    /\ undisturbed' = FALSE
    /\ Quiet
    /\ UNCHANGED << created_at, only_pausing >>

Unpause ==
    /\ Call("unpause", None, None)
    /\ Install(unpause(Self, now))
    /\ Quiet
    /\ UNCHANGED << created_at, undisturbed, t0, only_pausing >>

TogglePause ==
    /\ Call("toggle_pause", None, None)
    /\ Install(toggle_pause(Self, now))
    /\ t0' = IF paused(Self) THEN t0 ELSE Some(get_time(Self, now))
    /\ undisturbed' = (undisturbed /\ paused(Self))
    /\ Quiet
    /\ UNCHANGED << created_at, only_pausing >>

GetTime ==
    /\ Call("get_time", None, Some(get_time(Self, now)))
    /\ Quiet
    /\ UNCHANGED << start_time, paused_at, speed, created_at, undisturbed, t0,
                    only_pausing >>

SetTime ==
    /\ \E v \in Vals :
         /\ Call("set_time", Some(v), None)
         /\ Install(set_time(Self, now, v))
    /\ t0' = None
    /\ undisturbed' = FALSE
    /\ only_pausing' = FALSE
    /\ Quiet
    /\ UNCHANGED created_at

Reset ==
    /\ Call("reset", None, None)
    /\ Install(reset(Self, now))
    /\ t0' = None
    /\ undisturbed' = FALSE
    /\ only_pausing' = FALSE
    /\ Quiet
    /\ UNCHANGED created_at

AddTime ==
    /\ \E d \in Vals :
         /\ Call("add_time", Some(d), None)
         /\ Install(add_time(Self, d))
    /\ t0' = None
    /\ undisturbed' = FALSE
    /\ only_pausing' = FALSE
    /\ Quiet
    /\ UNCHANGED created_at

\* The call panics, or returns after the sleep it asked for (if any) has
\* lasted at least as long as requested.
SleepUntil ==
    /\ \E time \in Vals :
         /\ Call("sleep_until", Some(time), None)
         /\ LET r == sleep_until(Self, now, time)
            IN  /\ panicked' = r.panic
                /\ slept' = r.slept
                /\ IF r.slept = None
                   THEN now' = now
                   ELSE \E over \in Overshoot :
                          now' = Add(Add(now, r.slept[1]), over)
                /\ returned_at' = now'
                /\ running_for' = Add(running_for, Sub(now', now))
    /\ only_pausing' = FALSE
    /\ UNCHANGED << start_time, paused_at, speed, created_at, undisturbed, t0 >>

Next ==
    \/ Tick
    \/ Paused
    \/ Pause
    \/ Unpause
    \/ TogglePause
    \/ GetTime
    \/ SetTime
    \/ Reset
    \/ AddTime
    \/ SleepUntil

Spec == Init /\ [][Next]_vars

\* ------------------------------------------------------------- properties
\* Each property is stated on the state right after a call: `op` is the call,
\* `arg` its argument, `pre` the stopwatch and the clock it was made on, and
\* `returned_at` the clock when it returned (later than pre.now only when the
\* call slept).  get_time(Self, returned_at) is what get_time() returns when
\* read right after the call.

\* C1: pause/resume consistency.  For any positive speed, when a running
\* stopwatch is paused with get_time() = t0 and later unpaused (by unpause()
\* or toggle_pause(), with no set_time, add_time or reset in between),
\* get_time() read at the clock reading of the unpause is t0 again.
PauseResumeKeepsTime ==
    /\ op \in { "unpause", "toggle_pause" }
    /\ paused(pre.self)
    /\ t0 # None
    /\ Gt(speed, Zero)
    => get_time(Self, returned_at) = t0[1]

\* C2: set/get round trip.  get_time() read right after set_time(v) returns
\* v, paused or running.
SetGetRoundTrip ==
    op = "set_time" => get_time(Self, returned_at) = arg[1]

\* C3: add_time additivity.  get_time() read right after add_time(d) is
\* get_time() read right before it plus d, paused or running.
AddTimeAdditive ==
    op = "add_time"
        => get_time(Self, returned_at) = Add(get_time(pre.self, pre.now), arg[1])

\* C4: sleep_until reaches the target.  For any positive speed, when
\* sleep_until(time) returns on a running stopwatch, the sleep having lasted
\* at least as long as requested, get_time() is at least time.
SleepUntilReachesTarget ==
    (op = "sleep_until" /\ ~panicked /\ Gt(speed, Zero))
        => Ge(get_time(Self, returned_at), arg[1])

\* C5: sleep_until precondition.  sleep_until(t) on a paused stopwatch
\* panics: it does not sleep, the clock does not move, it does not return.
SleepUntilPausedPanics ==
    (op = "sleep_until" /\ paused(pre.self))
        => (panicked /\ slept = None /\ returned_at = pre.now /\ Self = pre.self)

SleepUntilCalledPaused ==
    op = "sleep_until" /\ paused(pre.self)

\* C6: reset() leaves the stopwatch exactly as set_time(0.0) would, and
\* get_time() read right after it returns 0, paused or running.
ResetIsSetTimeZero ==
    op = "reset"
        => /\ Self = set_time(pre.self, pre.now, Zero)
           /\ returned_at = pre.now
           /\ get_time(Self, returned_at) = Zero

\* C6, amended: reset() leaves the stopwatch exactly as set_time(0.0) would;
\* get_time() read right after it returns 0, paused or running, provided the
\* speed is finite and not zero and the end time is finite.
ResetIsSetTimeZeroFinite ==
    op = "reset"
        => /\ Self = set_time(pre.self, pre.now, Zero)
           /\ returned_at = pre.now
           /\ ( /\ speed # Zero
                /\ Finite(speed)
                /\ Finite(get_end_time(pre.self, pre.now)) )
                => get_time(Self, returned_at) = Zero

ResetPausedNonZero ==
    /\ op = "reset"
    /\ paused(pre.self)
    /\ speed # Zero
    /\ get_time(pre.self, pre.now) # Zero
    /\ Gt(pre.now, created_at)

\* C7: speed scaling.  While the stopwatch has never been paused and never
\* had set_time, add_time or reset called, get_time() is the raw time elapsed
\* since construction multiplied by the speed; a get_time() call returns
\* that value for the clock reading it was made at.
SpeedScaling ==
    undisturbed
        => /\ get_time(Self, now) = Mul(Sub(now, created_at), speed)
           /\ op = "get_time"
                => ret = Some(Mul(Sub(pre.now, created_at), speed))

SpeedScaledReading ==
    /\ undisturbed
    /\ op = "get_time"
    /\ Gt(pre.now, created_at)
    /\ speed # FromInt(1)
    /\ ret = Some(Mul(Sub(pre.now, created_at), speed))

\* C8: pause() is idempotent.  pause() always leaves the stopwatch paused;
\* on an already paused stopwatch, whatever the clock reads by then, it
\* changes neither start_time, paused_at, speed nor get_time().
PauseIdempotent ==
    op = "pause"
        => /\ paused(Self)
           /\ paused(pre.self)
                => /\ Self = pre.self
                   /\ get_time(Self, returned_at) = get_time(pre.self, pre.now)

PausedTwiceWithDelay ==
    /\ op = "pause"
    /\ pre.op = "pause"
    /\ paused(pre.self)
    /\ Gt(pre.now, pre.self.paused_at[1])

\* C9: unpause() is idempotent.  unpause() always leaves the stopwatch
\* running; on a running stopwatch it changes nothing, so a second unpause()
\* at any later clock reading leaves the state of the first.
UnpauseIdempotent ==
    op = "unpause"
        => /\ ~paused(Self)
           /\ ~paused(pre.self) => Self = pre.self
           /\ \A d \in 0 .. MaxClock :
                unpause(Self, Add(returned_at, FromInt(d))) = Self

UnpausedTwice ==
    /\ op = "unpause"
    /\ pre.op = "unpause"
    /\ t0 # None
    /\ Gt(now, created_at)
    /\ speed # FromInt(1)

\* C10: toggle_pause() flips the pause state: paused() after it is the
\* negation of paused() before it.
TogglePauseFlips ==
    op = "toggle_pause" => (paused(Self) <=> ~paused(pre.self))

ToggledTwice ==
    /\ op = "toggle_pause"
    /\ pre.op = "toggle_pause"
    /\ ~paused(Self)

OnlyPausedSleepUntilFails ==
    panicked => (op = "sleep_until" /\ paused(pre.self))

\* C13: time is frozen while paused.  In a paused state, the time source
\* advancing with no call made leaves get_time() unchanged; and get_time()
\* right after a pause() that paused the stopwatch is get_time() at the clock
\* reading the pause() was called at.
FrozenWhilePaused ==
    /\ paused(Self) => get_time(Self, now) = get_time(Self, returned_at)
    /\ (op = "pause" /\ ~paused(pre.self))
         => /\ paused(Self)
            /\ get_time(Self, returned_at) = get_time(pre.self, pre.now)

PausedClockAdvanced ==
    /\ op = "pause"
    /\ ~paused(pre.self)
    /\ paused(Self)
    /\ Gt(pre.now, created_at)
    /\ Gt(now, returned_at)
    /\ speed = FromInt(2)

\* C14: set_time while paused is stable under unpause.  On a paused
\* stopwatch, after set_time(v) the stopwatch is still paused with
\* get_time() = v, and after the unpause() that follows, get_time() read at
\* the clock reading of the unpause is still v.
SetTimePausedStable ==
    /\ (op = "set_time" /\ paused(pre.self))
         => (paused(Self) /\ get_time(Self, returned_at) = arg[1])
    /\ (op = "unpause" /\ pre.op = "set_time" /\ paused(pre.self))
         => get_time(Self, returned_at) = pre.arg[1]

\* C15: monotonic clock.  With a positive speed, as long as only pause,
\* unpause, toggle_pause, get_time and paused have been called, get_time()
\* never decreases: not across a call, and not while the clock advances.
MonotonicReadings ==
    (only_pausing /\ Gt(speed, Zero))
        => /\ Ge(get_time(Self, returned_at), get_time(pre.self, pre.now))
           /\ Ge(get_time(Self, now), get_time(Self, returned_at))

\* C16: only running time is counted.  As long as only pause, unpause,
\* toggle_pause, get_time and paused have been called, get_time() is the
\* speed times the total raw time spent in the Running state.
OnlyRunningTimeCounted ==
    only_pausing => get_time(Self, now) = Mul(running_for, speed)

\* C17: the pause state changes only through pause(), unpause() and
\* toggle_pause().  Construction yields a running stopwatch, and paused(),
\* get_time(), set_time(v), reset(), add_time(d) and sleep_until(t) leave
\* paused() as it was.
PauseStateFrame ==
    /\ calls = 0 => ~paused(Self)
    /\ op \in { "paused", "get_time", "set_time", "reset", "add_time",
                "sleep_until" }
         => (paused(Self) <=> paused(pre.self))

SetTimeWhileRunning ==
    /\ op = "set_time"
    /\ ~paused(pre.self)
    /\ ~paused(Self)
    /\ Gt(pre.now, created_at)

\* C18: speed is immutable.  In every reachable state the speed field is
\* the speed the stopwatch was constructed with, before and after every call.
SpeedImmutable ==
    /\ speed = created_speed
    /\ pre.self.speed = created_speed

AddTimeAfterSetTime ==
    /\ op = "add_time"
    /\ pre.op = "set_time"
    /\ arg # Some(Zero)
    /\ speed = FromInt(2)

\* C19: sleep_until on a running stopwatch computes the interval
\* time / speed - get_time(); it sleeps exactly that long when the interval
\* is positive, returns at once without sleeping when the interval is zero or
\* negative, and leaves start_time, paused_at and speed unchanged.
SleepUntilInterval ==
    (op = "sleep_until" /\ ~paused(pre.self))
        => LET interval == Sub(Div(arg[1], speed),
                               get_time(pre.self, pre.now))
           IN  /\ Gt(interval, Zero) => (~panicked /\ slept = Some(interval))
               /\ Ge(Zero, interval)
                    => (~panicked /\ slept = None /\ returned_at = pre.now)
               /\ Self = pre.self

====
